---- MODULE Spec2Model ----
(***************************************************************************)
(* A model of the File-Analyzer of python-simple-projects                  *)
(* (src/File-Analyzer/main.py): the text, CSV and JSON profilers, the      *)
(* per-file dispatch and the batch loop of main().                         *)
(*                                                                         *)
(* Strings are sequences of one-character strings, so that strip(),        *)
(* lower(), float() and the word regex are computed and not assumed.       *)
(* Numbers are exact decimals with FracDigits fraction digits, held as     *)
(* integers in units of 10^-FracDigits; the binary error of a double is    *)
(* not modelled.                                                           *)
(***************************************************************************)
EXTENDS Integers, Sequences, FiniteSets, TLC

VARIABLES
    file,           \* the input handed to analyze_*: what the reader yields
    top_n,          \* --top
    use_stopwords,  \* --stopwords
    analysis,       \* the dict an analyze_* call returned, or NoAnalysis
    fs,             \* batch: the disk, a function from the paths that exist to what is there
    inputs,         \* batch: args.inputs, the raw paths
    recursive,      \* batch: args.recursive
    format,         \* batch: args.format
    files,          \* batch: what discover_files returned
    pos,            \* batch: index of the next file of the for loop
    pc,             \* batch: "start" | "loop" | "done"
    outdir,         \* batch: the reports in the output directory
    log,            \* batch: the [OK]/[ERR] lines printed, in order
    students,       \* gradebook: self.students, the entries in insertion order
    saved,          \* gradebook: what the file at self.filepath holds, or NoFile
    call,           \* gradebook: the last method called, with its arguments
    printed,        \* gradebook: the lines the last call printed
    calls           \* gradebook: the number of calls made

vars == <<file, top_n, use_stopwords, analysis,
          fs, inputs, recursive, format, files, pos, pc, outdir, log,
          students, saved, call, printed, calls>>
analyzeVars == <<file, top_n, use_stopwords, analysis>>
batchVars == <<fs, inputs, recursive, format, files, pos, pc, outdir, log>>
gradeVars == <<students, saved, call, printed, calls>>

\* ------------------------------------------------------------------ bounds
\* fraction digits a number of the model carries
FracDigits == 5
\* rows of a one-column table
ColumnRows == 6
\* rows of a one-column table whose records are reordered
ReorderRows == 6
\* fragments a text is composed of
TextChunks == 4
\* the largest --top
MaxTop == 3
\* the most paths on a command line
MaxInputs == 2
\* the most calls made on a gradebook
MaxCalls == 4
\* rows of a table with up to two columns, elements of a JSON array
WideRows == 2

\* ------------------------------------------------------- program constants
\* is_numeric: numeric_hits / attempts >= 0.8, as the ratio ThresholdNum / ThresholdDen
ThresholdNum == 4
ThresholdDen == 5
\* Counter(vals).most_common(5)
TopValues == 5
\* round(mean(vals), 4), round(median(vals), 4)
RoundDigits == 4
\* round(avg_word_len, 2)
AvgDigits == 2

\* ------------------------------------------------------------- arithmetic
RECURSIVE Pow10(_)
Pow10(n) == IF n = 0 THEN 1 ELSE 10 * Pow10(n - 1)

Scale == Pow10(FracDigits)

RECURSIVE SumSeq(_)
SumSeq(s) == IF s = <<>> THEN 0 ELSE Head(s) + SumSeq(Tail(s))

CountOf(s, x) == Cardinality({i \in DOMAIN s : s[i] = x})

\* the distinct elements of s in order of first appearance: the keys of a dict filled
\* in the order of s
RECURSIVE FirstSeenFrom(_, _, _)
FirstSeenFrom(s, i, seen) ==
    IF i > Len(s) THEN <<>>
    ELSE IF s[i] \in seen THEN FirstSeenFrom(s, i + 1, seen)
    ELSE <<s[i]>> \o FirstSeenFrom(s, i + 1, seen \cup {s[i]})

FirstSeen(s) == FirstSeenFrom(s, 1, {})

MinSeq(s) == CHOOSE m \in {s[i] : i \in DOMAIN s} : \A i \in DOMAIN s : m <= s[i]
MaxSeq(s) == CHOOSE m \in {s[i] : i \in DOMAIN s} : \A i \in DOMAIN s : m >= s[i]

\* sorted(s), by insertion
RECURSIVE InsertSorted(_, _)
InsertSorted(sorted, x) ==
    IF sorted = <<>> THEN <<x>>
    ELSE IF Head(sorted) <= x THEN <<Head(sorted)>> \o InsertSorted(Tail(sorted), x)
    ELSE <<x>> \o sorted

RECURSIVE SortedFrom(_, _)
SortedFrom(s, acc) == IF s = <<>> THEN acc ELSE SortedFrom(Tail(s), InsertSorted(acc, Head(s)))

\* a variant that leaves the values in the order of the records
AsRecorded(s) == s

SortedSeq(s) == SortedFrom(s, <<>>)

\* round(num / den, digits) of a value held in units of 10^-FracDigits, den > 0: to the
\* nearest multiple of 10^-digits, a decimal tie to the even one
RoundHalfEven(num, den, digits) ==
    LET u    == Pow10(FracDigits - digits)
        q    == num \div (den * u)
        rem2 == 2 * (num - q * den * u)
        up   == rem2 > den * u \/ (rem2 = den * u /\ q % 2 = 1)
    IN  (IF up THEN q + 1 ELSE q) * u

\* statistics.mean(vals): the exact quotient sum / len, then rounded
MeanRounded(vals) == RoundHalfEven(SumSeq(vals), Len(vals), RoundDigits)

\* statistics.median(vals): the middle of sorted(vals), or the mean of the two middles
MedianRounded(vals) ==
    LET s == SortedSeq(vals)
        n == Len(s)
    IN  IF n % 2 = 1 THEN RoundHalfEven(s[(n + 1) \div 2], 1, RoundDigits)
        ELSE RoundHalfEven(s[n \div 2] + s[n \div 2 + 1], 2, RoundDigits)

\* ---------------------------------------------------------------- strings
Whitespace == {" ", "\t", "\n"}
Digits == {"0", "1", "2", "3", "4", "5", "6", "7", "8", "9"}

DigitVal(c) ==
    CASE c = "0" -> 0 [] c = "1" -> 1 [] c = "2" -> 2 [] c = "3" -> 3 [] c = "4" -> 4
      [] c = "5" -> 5 [] c = "6" -> 6 [] c = "7" -> 7 [] c = "8" -> 8 [] c = "9" -> 9

DigitChar(d) ==
    CASE d = 0 -> "0" [] d = 1 -> "1" [] d = 2 -> "2" [] d = 3 -> "3" [] d = 4 -> "4"
      [] d = 5 -> "5" [] d = 6 -> "6" [] d = 7 -> "7" [] d = 8 -> "8" [] d = 9 -> "9"

\* str.lower() on the letters the model's texts use
LowerChar(c) ==
    CASE c = "T" -> "t" [] c = "A" -> "a" [] c = "N" -> "n" [] c = "I" -> "i"
      [] c = "F" -> "f" [] c = "C" -> "c" [] OTHER -> c

Lower(s) == [i \in DOMAIN s |-> LowerChar(s[i])]

\* str.strip(): leading and trailing whitespace removed
Strip(s) ==
    LET keep == {i \in DOMAIN s : s[i] \notin Whitespace}
    IN  IF keep = {} THEN <<>>
        ELSE LET lo == CHOOSE i \in keep : \A j \in keep : i <= j
                 hi == CHOOSE i \in keep : \A j \in keep : i >= j
             IN  SubSeq(s, lo, hi)

\* the decimal digits of a natural number, str(n) for n >= 0
RECURSIVE NatChars(_)
NatChars(n) == IF n < 10 THEN <<DigitChar(n)>> ELSE Append(NatChars(n \div 10), DigitChar(n % 10))

\* the value of a digit string
RECURSIVE DigitsVal(_)
DigitsVal(s) == IF s = <<>> THEN 0 ELSE 10 * DigitsVal(SubSeq(s, 1, Len(s) - 1)) + DigitVal(s[Len(s)])

\* ------------------------------------------------------------ JSON values
\* What json.load and csv.DictReader hand over. A dict keeps its keys in insertion
\* order: kv is a sequence of [k, v] with distinct keys.
NoneVal == [t |-> "none"]
StrVal(s) == [t |-> "str", s |-> s]
IntVal(n) == [t |-> "int", n |-> n]
BoolVal(b) == [t |-> "bool", b |-> b]
ListVal(items) == [t |-> "list", items |-> items]
DictVal(kv) == [t |-> "dict", kv |-> kv]

\* type(v).__name__
TypeName(v) ==
    CASE v.t = "none" -> "NoneType" [] v.t = "str" -> "str" [] v.t = "int" -> "int"
      [] v.t = "bool" -> "bool" [] v.t = "list" -> "list" [] v.t = "dict" -> "dict"

DictKeys(v) == [i \in DOMAIN v.kv |-> v.kv[i].k]

\* dict.get(h): the value under key h, None when the key is absent
DictGet(v, h) ==
    IF \E i \in DOMAIN v.kv : v.kv[i].k = h
    THEN v.kv[CHOOSE i \in DOMAIN v.kv : v.kv[i].k = h].v
    ELSE NoneVal

\* str(v) for the values a cell can hold; a list or a dict prints with its brackets
PyStr(v) ==
    CASE v.t = "str" -> v.s
      [] v.t = "int" -> IF v.n < 0 THEN <<"-">> \o NatChars(-v.n) ELSE NatChars(v.n)
      [] v.t = "bool" -> IF v.b THEN <<"T", "r", "u", "e">> ELSE <<"F", "a", "l", "s", "e">>
      [] v.t = "none" -> <<"N", "o", "n", "e">>
      [] v.t = "list" -> IF v.items = <<>> THEN <<"[", "]">> ELSE <<"[", ".", ".", ".", "]">>
      [] v.t = "dict" -> IF v.kv = <<>> THEN <<"{", "}">> ELSE <<"{", ".", ".", ".", "}">>

\* ------------------------------------------------------------------ float()
NoFloat == [ok |-> FALSE, finite |-> FALSE, val |-> 0]

\* float(s) of a stripped string: an optional sign, then nan, inf or infinity in any
\* case, or digits with at most one point and at least one digit (no exponent, no
\* underscore: the model's literals use neither). ok = FALSE is the ValueError.
FloatOfChars(s) ==
    LET signed == s # <<>> /\ s[1] \in {"+", "-"}
        body   == IF signed THEN Tail(s) ELSE s
        neg    == signed /\ s[1] = "-"
        low    == Lower(body)
        points == {i \in DOMAIN body : body[i] = "."}
        p      == IF points = {} THEN Len(body) + 1 ELSE CHOOSE i \in points : TRUE
        ip     == SubSeq(body, 1, p - 1)
        fp     == SubSeq(body, p + 1, Len(body))
        mag    == DigitsVal(ip) * Scale
                  + IF Len(fp) <= FracDigits
                    THEN DigitsVal(fp) * Pow10(FracDigits - Len(fp))
                    ELSE DigitsVal(SubSeq(fp, 1, FracDigits))
    IN  IF low \in {<<"n", "a", "n">>, <<"i", "n", "f">>,
                    <<"i", "n", "f", "i", "n", "i", "t", "y">>}
        THEN [ok |-> TRUE, finite |-> FALSE, val |-> 0]
        ELSE IF /\ Cardinality(points) <= 1
                /\ \A i \in DOMAIN body : body[i] \in Digits \cup {"."}
                /\ \E i \in DOMAIN body : body[i] \in Digits
             THEN [ok |-> TRUE, finite |-> TRUE, val |-> IF neg THEN -mag ELSE mag]
             ELSE NoFloat

\* try_parse_float(x): None for None, for a blank string and for what float() rejects
try_parse_float(x) ==
    IF x.t = "none" THEN NoFloat
    ELSE LET s == Strip(PyStr(x))
         IN  IF s = <<>> THEN NoFloat ELSE FloatOfChars(s)

\* val is None or str(val).strip() == ""
IsMissing(val) == val.t = "none" \/ Strip(PyStr(val)) = <<>>


\* ------------------------------------------------- the column accumulators
\* col_missing, col_attempts, col_numeric_hits, col_values_numeric and
\* col_values_categorical: defaultdicts keyed by header name
EmptyTally(names) ==
    [missing  |-> [h \in names |-> 0],
     attempts |-> [h \in names |-> 0],
     hits     |-> [h \in names |-> 0],
     nums     |-> [h \in names |-> <<>>],
     cats     |-> [h \in names |-> <<>>]]

\* the body of "for h in headers" for one value
TallyCell(acc, h, val) ==
    IF IsMissing(val)
    THEN [acc EXCEPT !.missing[h] = @ + 1]
    ELSE LET num == try_parse_float(val)
         IN  IF num.ok /\ num.finite
             THEN [acc EXCEPT !.attempts[h] = @ + 1,
                              !.hits[h] = @ + 1,
                              !.nums[h] = Append(@, num.val)]
             ELSE [acc EXCEPT !.attempts[h] = @ + 1,
                              !.cats[h] = Append(@, Strip(PyStr(val)))]

\* "for h in headers" over one record, from header i on
RECURSIVE TallyRecord(_, _, _, _)
TallyRecord(acc, rec, headers, i) ==
    IF i > Len(headers) THEN acc
    ELSE TallyRecord(TallyCell(acc, headers[i], DictGet(rec, headers[i])), rec, headers, i + 1)

\* "for row in reader" / "for item in data", from record i on; an item that is no
\* dict is skipped (analyze_json), a csv row always is one
RECURSIVE TallyRecords(_, _, _, _)
TallyRecords(acc, recs, headers, i) ==
    IF i > Len(recs) THEN acc
    ELSE IF recs[i].t # "dict" THEN TallyRecords(acc, recs, headers, i + 1)
    ELSE TallyRecords(TallyRecord(acc, recs[i], headers, 1), recs, headers, i + 1)

\* ------------------------------------------------------ the column summary
\* Counter(s): one entry per distinct element, in order of first appearance
RECURSIVE CounterFrom(_, _, _)
CounterFrom(s, i, seen) ==
    IF i > Len(s) THEN <<>>
    ELSE IF s[i] \in seen THEN CounterFrom(s, i + 1, seen)
    ELSE <<[value |-> s[i], count |-> CountOf(s, s[i])]>> \o CounterFrom(s, i + 1, seen \cup {s[i]})

\* a variant that is no stable sort: e goes before the entries of equal count
RECURSIVE InsertByCountTiesFirst(_, _)
InsertByCountTiesFirst(sorted, e) ==
    IF sorted = <<>> THEN <<e>>
    ELSE IF Head(sorted).count > e.count
    THEN <<Head(sorted)>> \o InsertByCountTiesFirst(Tail(sorted), e)
    ELSE <<e>> \o sorted

\* sorted(..., key=count, reverse=True), a stable sort: e goes behind every entry
\* whose count is not smaller
RECURSIVE InsertByCount(_, _)
InsertByCount(sorted, e) ==
    IF sorted = <<>> THEN <<e>>
    ELSE IF Head(sorted).count >= e.count THEN <<Head(sorted)>> \o InsertByCount(Tail(sorted), e)
    ELSE <<e>> \o sorted

RECURSIVE SortByCount(_, _)
SortByCount(entries, acc) ==
    IF entries = <<>> THEN acc ELSE SortByCount(Tail(entries), InsertByCount(acc, Head(entries)))

\* Counter(s).most_common(n): by count, descending; equal counts stay in order of
\* first appearance; n <= 0 gives the empty list
MostCommon(s, n) ==
    LET all == SortByCount(CounterFrom(s, 1, {}), <<>>)
    IN  SubSeq(all, 1, IF n < 0 THEN 0 ELSE IF n < Len(all) THEN n ELSE Len(all))

\* a variant with a strict threshold: exactly 80% is not enough
IsNumericColumnStrict(attempts, numeric_hits) ==
    attempts > 0 /\ numeric_hits * ThresholdDen > ThresholdNum * attempts

\* is_numeric = (attempts > 0 and numeric_hits / attempts >= 0.8)
IsNumericColumn(attempts, numeric_hits) ==
    attempts > 0 /\ numeric_hits * ThresholdDen >= ThresholdNum * attempts

\* the numeric col_summary
NumericSummary(h, missing, vals) ==
    [name |-> h, type |-> "numeric", missing |-> missing, count |-> Len(vals),
     min |-> MinSeq(vals), max |-> MaxSeq(vals),
     mean |-> MeanRounded(vals), median |-> MedianRounded(vals)]

\* a variant that counts only the values kept as text
CategoricalSummaryTextOnly(h, missing, attempts, vals) ==
    [name |-> h, type |-> "categorical", missing |-> missing, count |-> Len(vals),
     top_values |-> MostCommon(vals, TopValues)]

\* the categorical col_summary
CategoricalSummary(h, missing, attempts, vals) ==
    [name |-> h, type |-> "categorical", missing |-> missing, count |-> attempts,
     top_values |-> MostCommon(vals, TopValues)]

\* the body of the second "for h in headers"
ColumnSummary(acc, h) ==
    IF IsNumericColumn(acc.attempts[h], acc.hits[h]) /\ acc.nums[h] # <<>>
    THEN NumericSummary(h, acc.missing[h], acc.nums[h])
    ELSE CategoricalSummary(h, acc.missing[h], acc.attempts[h], acc.cats[h])

SeqRange(s) == {s[i] : i \in DOMAIN s}

\* the dict both table paths return
TableProfile(type, row_count, headers, recs) ==
    LET acc == TallyRecords(EmptyTally(SeqRange(headers)), recs, headers, 1)
    IN  [type |-> type, rows |-> row_count, columns |-> Len(headers), headers |-> headers,
         columns_detail |-> [i \in DOMAIN headers |-> ColumnSummary(acc, headers[i])]]

\* ------------------------------------------------------------ analyze_csv
\* One row of csv.DictReader: dict(zip(fieldnames, line)), and None (restval) under
\* every field name the line is too short for. A name that occurs twice keeps its
\* first place and its last value.
DictRow(fieldnames, line) ==
    LET keys     == FirstSeen(fieldnames)
        last(k)  == CHOOSE j \in DOMAIN fieldnames :
                        /\ fieldnames[j] = k
                        /\ \A i \in DOMAIN fieldnames : fieldnames[i] = k => i <= j
        value(k) == IF last(k) <= Len(line) THEN StrVal(line[last(k)]) ELSE NoneVal
    IN  DictVal([i \in DOMAIN keys |-> [k |-> keys[i], v |-> value(keys[i])]])

\* analyze_csv(path): headers are reader.fieldnames, every line read is a row
analyze_csv(f) ==
    TableProfile("csv", Len(f.lines), f.fieldnames,
                 [i \in DOMAIN f.lines |-> DictRow(f.fieldnames, f.lines[i])])

\* ----------------------------------------------------------- analyze_json
\* a variant that takes no empty array for a table
IsJsonTableNonEmpty(data) ==
    data.t = "list" /\ Len(data.items) > 0 /\ data.items[1].t = "dict"

\* isinstance(data, list) and (len(data) == 0 or isinstance(data[0], dict))
IsJsonTable(data) ==
    data.t = "list" /\ (Len(data.items) = 0 \/ data.items[1].t = "dict")

\* the set "headers" after the update loop: the keys of every item that is a dict
HeaderSet(data) ==
    UNION {SeqRange(DictKeys(data.items[i])) : i \in {j \in DOMAIN data.items : data.items[j].t = "dict"}}

\* list(headers): a set of str iterates in the order of the hashes, which differ from
\* run to run, so every order of the set is a possible list
HeaderLists(S) ==
    {o \in [1..Cardinality(S) -> S] : \A x \in S : \E i \in DOMAIN o : o[i] = x}

Prefix(s, n) == SubSeq(s, 1, IF n < Len(s) THEN n ELSE Len(s))

\* one entry of the summary of a json object: the type name, and length, sample or keys
KeySurvey(k, v) ==
    [key    |-> k,
     type   |-> TypeName(v),
     length |-> IF v.t = "list" THEN Len(v.items) ELSE -1,
     sample |-> IF v.t = "list" /\ v.items # <<>> /\ v.items[1].t \notin {"dict", "list"}
                THEN Prefix(v.items, 5) ELSE <<>>,
     keys   |-> IF v.t = "dict" THEN Prefix(DictKeys(v), 10) ELSE <<>>]

\* analyze_json(path) on the parsed value, with the list the header set became
analyze_json(data, headers) ==
    IF IsJsonTable(data)
    THEN TableProfile("json_table", Len(data.items), headers, data.items)
    ELSE IF data.t = "dict"
    THEN [type |-> "json_object",
          keys |-> [i \in DOMAIN data.kv |-> KeySurvey(data.kv[i].k, data.kv[i].v)]]
    ELSE IF data.t = "list"
    THEN [type |-> "json_list", length |-> Len(data.items),
          element_types_sample |-> {TypeName(x) : x \in SeqRange(Prefix(data.items, 100))},
          sample |-> Prefix(data.items, 10)]
    ELSE [type |-> "json_other", python_type |-> TypeName(data)]

\* ------------------------------------------------------------------ inputs
NoAnalysis == [type |-> "none"]
CsvFile(fieldnames, lines) == [ext |-> ".csv", fieldnames |-> fieldnames, lines |-> lines]
JsonFile(data) == [ext |-> ".json", data |-> data]
TextFile(content) == [ext |-> ".txt", content |-> content]

\* the analyzers run alone: the batch loop is idle
BatchIdle ==
    /\ fs = {} /\ inputs = <<>> /\ recursive = FALSE /\ format = "md"
    /\ files = <<>> /\ pos = 0 /\ pc = "idle" /\ outdir = {} /\ log = <<>>

\* no gradebook is open
NoFile == [exists |-> FALSE]
NoCall == [op |-> "none"]
GradebookIdle ==
    /\ students = <<>> /\ saved = NoFile /\ call = NoCall /\ printed = <<>> /\ calls = 0

\* the cells of a one-column table: blank, a number, a word, and the two spellings
\* float() accepts that are no finite number
ColumnCells == {<<" ">>, <<"1">>, <<"a">>, <<"n", "a", "n">>}
JsonColumnCells == {NoneVal, IntVal(1), StrVal(<<"a">>), StrVal(<<"-", "I", "n", "f">>)}

\* f is a csv file of one column x whose cells are col
ColumnCsv(col) == CsvFile(<<"x">>, [i \in DOMAIN col |-> <<col[i]>>])
\* f is a json array of objects with the one key x whose values are col
ColumnJson(col) == JsonFile(ListVal([i \in DOMAIN col |-> DictVal(<<[k |-> "x", v |-> col[i]]>>)]))

\* a table of one column x with up to ColumnRows rows, as a csv file and as a json array
ColumnInput(f) ==
    \E n \in 0..ColumnRows :
        \/ \E col \in [1..n -> ColumnCells] : f = ColumnCsv(col)
        \/ \E col \in [1..n -> JsonColumnCells] : f = ColumnJson(col)

\* tables of up to two columns and WideRows rows
WideCells == {<<>>, <<"1">>, <<"0", ".", "0", "0", "0", "0", "4">>, <<"x">>}
WideFieldnames == {<<>>, <<"a">>, <<"a", "b">>, <<"b", "a">>, <<"a", "a">>}
WideLines(fieldnames) ==
    UNION {[1..k -> WideCells] : k \in 1..(IF Len(fieldnames) = 0 THEN 1 ELSE Len(fieldnames))}

JsonWideCells == {NoneVal, IntVal(2), StrVal(<<"x">>)}
JsonKeyLists == {<<>>, <<"a">>, <<"b">>, <<"a", "b">>, <<"b", "a">>}
JsonWideItems ==
    UNION {{DictVal([i \in DOMAIN ks |-> [k |-> ks[i], v |-> vs[i]]]) :
               vs \in [DOMAIN ks -> JsonWideCells]} : ks \in JsonKeyLists}
    \cup {IntVal(5), ListVal(<<>>)}

\* json values that are no array
JsonOthers ==
    {IntVal(3), NoneVal, StrVal(<<"x">>), BoolVal(TRUE), DictVal(<<>>),
     DictVal(<<[k |-> "k", v |-> ListVal(<<IntVal(1), IntVal(2)>>)],
               [k |-> "m", v |-> DictVal(<<[k |-> "z", v |-> IntVal(1)]>>)]>>)}

WideInput(f) ==
    \/ \E fn \in WideFieldnames : \E n \in 0..WideRows :
           \E lines \in [1..n -> WideLines(fn)] : f = CsvFile(fn, lines)
    \/ \E n \in 0..WideRows : \E items \in [1..n -> JsonWideItems] : f = JsonFile(ListVal(items))
    \/ \E d \in JsonOthers : f = JsonFile(d)

InitTable ==
    /\ (ColumnInput(file) \/ WideInput(file))
    /\ top_n = 10 /\ use_stopwords = FALSE
    /\ analysis = NoAnalysis
    /\ BatchIdle
    /\ GradebookIdle

\* ----------------------------------------------------------------- actions
\* analyze_file(path, ...) on a .csv file: analyze_csv(path)
AnalyzeCsv ==
    /\ pc = "idle" /\ analysis = NoAnalysis /\ file.ext = ".csv"
    /\ analysis' = analyze_csv(file)
    /\ UNCHANGED <<file, top_n, use_stopwords>>
    /\ UNCHANGED batchVars
    /\ UNCHANGED gradeVars

\* analyze_file(path, ...) on a .json file that parses: analyze_json(path)
AnalyzeJson ==
    /\ pc = "idle" /\ analysis = NoAnalysis /\ file.ext = ".json"
    /\ \E headers \in HeaderLists(IF IsJsonTable(file.data) THEN HeaderSet(file.data) ELSE {}) :
           analysis' = analyze_json(file.data, headers)
    /\ UNCHANGED <<file, top_n, use_stopwords>>
    /\ UNCHANGED batchVars
    /\ UNCHANGED gradeVars

NextTable == AnalyzeCsv \/ AnalyzeJson

SpecTable == InitTable /\ [][NextTable]_vars

\* ------------------------------------------------ what the claims speak of
\* the analysis of a table is there
TableDone == analysis.type \in {"csv", "json_table"}

\* the records of the table input: the rows of the csv file, the elements of the array
Records(f) ==
    IF f.ext = ".csv" THEN [i \in DOMAIN f.lines |-> DictRow(f.fieldnames, f.lines[i])]
    ELSE f.data.items

\* the records that are mappings
MappingRecords(f) == SelectSeq(Records(f), LAMBDA r : r.t = "dict")

\* the raw values of column h, one per mapping record, None where the record lacks h
RawColumn(f, h) ==
    LET recs == MappingRecords(f) IN [i \in DOMAIN recs |-> DictGet(recs[i], h)]

\* a missing value: null or absent, or a string that is empty once trimmed
MissingValue(v) == v.t = "none" \/ (v.t = "str" /\ Strip(v.s) = <<>>)

\* the places of the present values of column h, and of those that parse to a finite
\* number
PresentAt(f, h) ==
    LET col == RawColumn(f, h) IN {i \in DOMAIN col : ~MissingValue(col[i])}
FiniteAt(f, h) ==
    LET col == RawColumn(f, h)
    IN  {i \in DOMAIN col : ~MissingValue(col[i]) /\ try_parse_float(col[i]).ok
                                                   /\ try_parse_float(col[i]).finite}

\* how often a name occurs in the header sequence
Occurrences(headers, h) == Cardinality({i \in DOMAIN headers : headers[i] = h})

\* (C1) A column is classified numeric exactly when it has a present value and at
\* least 80% of its present values parse to a finite number (nan and +/-inf do not
\* count); a column with no present value is categorical with count 0 and no
\* top_values.
C1_NumericIffEightyPercent ==
    TableDone =>
        \A i \in DOMAIN analysis.columns_detail :
            LET col     == analysis.columns_detail[i]
                present == Cardinality(PresentAt(file, col.name))
                finite  == Cardinality(FiniteAt(file, col.name))
            IN  /\ col.type \in {"numeric", "categorical"}
                /\ col.type = "numeric" <=> (present > 0 /\ 5 * finite >= 4 * present)
                /\ present = 0 => (col.type = "categorical" /\ col.count = 0 /\ col.top_values = <<>>)

\* a column with five present values, four of them numbers, classified numeric
C1_Witness ==
    /\ TableDone
    /\ \E i \in DOMAIN analysis.columns_detail :
           /\ Cardinality(PresentAt(file, analysis.columns_detail[i].name)) = 5
           /\ Cardinality(FiniteAt(file, analysis.columns_detail[i].name)) = 4
           /\ analysis.columns_detail[i].type = "numeric"

\* a column with six present values, four of them numbers, classified categorical
C1_WitnessBelow ==
    /\ TableDone
    /\ \E i \in DOMAIN analysis.columns_detail :
           /\ Cardinality(PresentAt(file, analysis.columns_detail[i].name)) = 6
           /\ Cardinality(FiniteAt(file, analysis.columns_detail[i].name)) = 4
           /\ analysis.columns_detail[i].type = "categorical"

\* (C2, as claimed) For every column of a table profile, numeric or categorical, the
\* missing count plus the reported count equals the reported row count.
C2_MissingPlusCountIsRows ==
    TableDone =>
        \A i \in DOMAIN analysis.columns_detail :
            analysis.columns_detail[i].missing + analysis.columns_detail[i].count = analysis.rows

\* (C2, amended) With D the number of records that are mappings (every row of a csv
\* file; at most the row count for a json array, and equal to it when every element
\* is a mapping), s the number of present values of the column that are no finite
\* number and m the number of times the column's name occurs in the header sequence:
\* missing + count = m * D for a categorical column and m * (D - s) for a numeric one.
C2_MissingPlusCountAmended ==
    TableDone =>
        LET D == Len(MappingRecords(file))
        IN  /\ D <= analysis.rows
            /\ (\A j \in DOMAIN Records(file) : Records(file)[j].t = "dict") => D = analysis.rows
            /\ \A i \in DOMAIN analysis.columns_detail :
                   LET col == analysis.columns_detail[i]
                       m   == Occurrences(analysis.headers, col.name)
                       s   == Cardinality(PresentAt(file, col.name) \ FiniteAt(file, col.name))
                   IN  /\ col.type = "categorical" => col.missing + col.count = m * D
                       /\ col.type = "numeric" => col.missing + col.count = m * (D - s)

\* a numeric column that holds a present value that is no number
C2_Witness ==
    /\ TableDone
    /\ \E i \in DOMAIN analysis.columns_detail :
           /\ analysis.columns_detail[i].type = "numeric"
           /\ PresentAt(file, analysis.columns_detail[i].name)
                # FiniteAt(file, analysis.columns_detail[i].name)

\* the field names of the records in order of first appearance; the header line of a
\* csv file is where its names first appear
FirstAppearance(f) ==
    IF f.ext = ".csv" THEN FirstSeen(f.fieldnames)
    ELSE LET RECURSIVE keysFrom(_)
             keysFrom(i) == IF i > Len(MappingRecords(f)) THEN <<>>
                            ELSE DictKeys(MappingRecords(f)[i]) \o keysFrom(i + 1)
         IN  FirstSeen(keysFrom(1))

\* (C3) On both table paths the reported headers are the union of the field names in
\* order of first appearance across the records, and the column profiles follow that
\* order.
C3_HeadersInFirstAppearanceOrder ==
    TableDone =>
        /\ analysis.headers = FirstAppearance(file)
        /\ [i \in DOMAIN analysis.columns_detail |-> analysis.columns_detail[i].name]
             = FirstAppearance(file)

\* the trimmed present values of column h, in record order
PresentTrimmed(f, h) ==
    LET col  == RawColumn(f, h)
        kept == SelectSeq(col, LAMBDA v : ~MissingValue(v))
    IN  [i \in DOMAIN kept |-> Strip(PyStr(kept[i]))]

\* (C4) For a categorical column the observed count is the number of present values,
\* top_values ranks the distinct trimmed present values by descending frequency, ties
\* by first appearance, cut to 5, and with at most 5 distinct present values the
\* counts of top_values add up to the observed count.
C4_TopValuesRankPresentValues ==
    TableDone =>
        \A i \in DOMAIN analysis.columns_detail :
            LET col  == analysis.columns_detail[i]
                vals == PresentTrimmed(file, col.name)
            IN  col.type = "categorical" =>
                    /\ col.count = Len(vals)
                    /\ Len(col.top_values) <= 5
                    /\ col.top_values = MostCommon(vals, 5)
                    /\ Cardinality(SeqRange(vals)) <= 5 =>
                           SumSeq([k \in DOMAIN col.top_values |-> col.top_values[k].count]) = col.count

\* (C5) For a numeric column the reported values satisfy min <= median <= max and
\* min <= mean <= max, min and max unrounded, mean and median rounded to 4 decimals.
C5_MeanAndMedianWithinMinMax ==
    TableDone =>
        \A i \in DOMAIN analysis.columns_detail :
            LET col == analysis.columns_detail[i]
            IN  col.type = "numeric" =>
                    /\ col.min <= col.median /\ col.median <= col.max
                    /\ col.min <= col.mean /\ col.mean <= col.max

\* (C7) analyze_json returns a table profile exactly when the parsed value is a
\* sequence that is empty or begins with a mapping, and otherwise the key survey of a
\* mapping, the survey of a list, or the bare type tag; the empty array gives a table
\* with 0 rows, 0 columns and no column profile.
C7_TableIffArrayOfObjects ==
    (file.ext = ".json" /\ analysis # NoAnalysis) =>
        LET data    == file.data
            tabular == data.t = "list" /\ (data.items = <<>> \/ Head(data.items).t = "dict")
        IN  /\ analysis.type = "json_table" <=> tabular
            /\ ~tabular =>
                   analysis.type = (IF data.t = "dict" THEN "json_object"
                                    ELSE IF data.t = "list" THEN "json_list" ELSE "json_other")
            /\ (data.t = "list" /\ data.items = <<>>) =>
                   /\ analysis.rows = 0 /\ analysis.columns = 0
                   /\ analysis.headers = <<>> /\ analysis.columns_detail = <<>>

\* the empty array, profiled as a table
C7_Witness ==
    /\ file.ext = ".json" /\ file.data = ListVal(<<>>)
    /\ analysis.type = "json_table"

\* an array that begins with a mapping and holds an element that is none: still a table
C7_WitnessMixed ==
    /\ file.ext = ".json" /\ analysis.type = "json_table"
    /\ \E j \in DOMAIN file.data.items : file.data.items[j].t # "dict"

\* ------------------------------------------------------ reordered records
\* one-column tables for reordering. The words: a column uses the first k of six
\* words (the analyzers strip and compare them, nothing more), and six overflow
\* most_common(5). The numbers: two integers and a small fraction, with a word that
\* a numeric column leaves out. The arrays: objects with and without the keys, and
\* an element that is no object.
LabelSeq == <<<<"a">>, <<"b">>, <<"c">>, <<"d">>, <<"e">>, <<"f">>>>
FirstLabels(k) == {LabelSeq[i] : i \in 1..k}
NumberCells == {<<"1">>, <<"2">>, <<"0", ".", "0", "0", "0", "0", "4">>, <<"a">>}
ReorderItems ==
    {DictVal(<<[k |-> "x", v |-> IntVal(1)]>>),
     DictVal(<<[k |-> "x", v |-> StrVal(<<"a">>)]>>),
     DictVal(<<[k |-> "y", v |-> StrVal(<<"a">>)], [k |-> "x", v |-> IntVal(2)]>>),
     DictVal(<<>>),
     IntVal(5)}

ReorderInput(f) ==
    \/ \E n \in 0..ReorderRows : \E k \in 0..Len(LabelSeq) :
           \E col \in [1..n -> FirstLabels(k)] :
               SeqRange(col) = FirstLabels(k) /\ f = ColumnCsv(col)
    \/ \E n \in 0..(ReorderRows - 1) : \E col \in [1..n -> NumberCells] : f = ColumnCsv(col)
    \/ \E n \in 0..(ReorderRows - 2) : \E items \in [1..n -> ReorderItems] : f = JsonFile(ListVal(items))

InitReorder ==
    /\ ReorderInput(file)
    /\ top_n = 10 /\ use_stopwords = FALSE
    /\ analysis = NoAnalysis
    /\ BatchIdle
    /\ GradebookIdle

SpecReorder == InitReorder /\ [][NextTable]_vars

\* the input with its records in the order p: record i of the result is record p[i]
Reordered(f, p) ==
    IF f.ext = ".csv" THEN [f EXCEPT !.lines = [i \in DOMAIN f.lines |-> f.lines[p[i]]]]
    ELSE [f EXCEPT !.data.items = [i \in DOMAIN f.data.items |-> f.data.items[p[i]]]]

\* the first record moved to the end, and the first two records exchanged: the two
\* permutations every permutation of n records is composed of
Rotation(n) == [i \in 1..n |-> IF i = n THEN 1 ELSE i + 1]
Exchange(n) == [i \in 1..n |-> IF i = 1 /\ n >= 2 THEN 2 ELSE IF i = 2 THEN 1 ELSE i]

\* the places of the records that are mappings, ascending
RECURSIVE PlacesFrom(_, _)
PlacesFrom(recs, i) ==
    IF i > Len(recs) THEN <<>>
    ELSE IF recs[i].t = "dict" THEN <<i>> \o PlacesFrom(recs, i + 1)
    ELSE PlacesFrom(recs, i + 1)

MappingPlaces(f) == PlacesFrom(Records(f), 1)

\* the permutation q of the mapping records, every other element left where it is
Lifted(f, q) ==
    LET ps == MappingPlaces(f)
    IN  [i \in 1..Len(Records(f)) |->
            IF \E k \in DOMAIN ps : ps[k] = i THEN ps[q[CHOOSE k \in DOMAIN ps : ps[k] = i]]
            ELSE i]

\* what the analyzer returns for f when the header set lists as headers
AnalysisOf(f, headers) ==
    IF f.ext = ".csv" THEN analyze_csv(f) ELSE analyze_json(f.data, headers)

\* the profile of the column named h
ColumnNamed(a, h) == a.columns_detail[CHOOSE i \in DOMAIN a.columns_detail : a.columns_detail[i].name = h]

\* two table profiles agree on every column's classification, missing count, count,
\* min, max, mean and median, and on the counts listed in top_values
SameAggregates(a, b) ==
    /\ a.type = b.type /\ a.rows = b.rows /\ a.columns = b.columns
    /\ SeqRange(a.headers) = SeqRange(b.headers)
    /\ \A h \in SeqRange(a.headers) :
           LET x == ColumnNamed(a, h)
               y == ColumnNamed(b, h)
           IN  /\ x.type = y.type /\ x.missing = y.missing /\ x.count = y.count
               /\ x.type = "numeric" =>
                      /\ x.min = y.min /\ x.max = y.max
                      /\ x.mean = y.mean /\ x.median = y.median
               /\ x.type = "categorical" =>
                      [k \in DOMAIN x.top_values |-> x.top_values[k].count]
                        = [k \in DOMAIN y.top_values |-> y.top_values[k].count]

\* and top_values lists the same entries, in whatever order
SameEntries(a, b) ==
    \A h \in SeqRange(a.headers) :
        ColumnNamed(a, h).type = "categorical" =>
            SeqRange(ColumnNamed(a, h).top_values) = SeqRange(ColumnNamed(b, h).top_values)

\* the distinct trimmed values of column h that are present and no finite number
DistinctWords(f, h) ==
    LET col == RawColumn(f, h)
    IN  {Strip(PyStr(col[i])) : i \in PresentAt(f, h) \ FiniteAt(f, h)}

\* (C8, as claimed) Any permutation of the records of a table input leaves every
\* column's classification, missing count, count, min, max, mean and median and the
\* value frequencies of top_values as they are; only the order of equally frequent
\* entries of top_values may differ. Checked for the rotation and the exchange of all
\* records, of which every permutation is composed.
C8_ReorderKeepsProfile ==
    TableDone =>
        \A p \in {Rotation(Len(Records(file))), Exchange(Len(Records(file)))} :
            LET b == AnalysisOf(Reordered(file, p), analysis.headers)
            IN  b.type = analysis.type /\ SameAggregates(analysis, b) /\ SameEntries(analysis, b)

\* (C8, amended) Any permutation of the records that are mappings (an element of a
\* json array that is no mapping keeps its place) leaves every column's
\* classification, missing count, count, min, max, mean and median and the counts
\* listed in top_values as they are; the entries of top_values are the same, up to
\* their order, when the column has at most 5 distinct values that are no number.
\* Checked for the rotation and the exchange of the mapping records: every permutation
\* is composed of them, the inputs are closed under them, and the relation is
\* transitive.
C8_ReorderKeepsAggregates ==
    TableDone =>
        LET k == Len(MappingPlaces(file))
        IN  \A q \in {Rotation(k), Exchange(k)} :
                LET b == AnalysisOf(Reordered(file, Lifted(file, q)), analysis.headers)
                IN  /\ SameAggregates(analysis, b)
                    /\ (\A h \in SeqRange(analysis.headers) :
                            Cardinality(DistinctWords(file, h)) <= 5) => SameEntries(analysis, b)

\* a numeric column with a word in it and two different numbers, reordered
C8_Witness ==
    /\ TableDone
    /\ \E i \in DOMAIN analysis.columns_detail :
           /\ analysis.columns_detail[i].type = "numeric"
           /\ analysis.columns_detail[i].min < analysis.columns_detail[i].max
           /\ analysis.columns_detail[i].count < analysis.rows
    /\ Reordered(file, Rotation(Len(Records(file)))) # file

\* a categorical column with six distinct words
C8_WitnessOverflow ==
    /\ TableDone
    /\ \E i \in DOMAIN analysis.columns_detail :
           Cardinality(DistinctWords(file, analysis.columns_detail[i].name)) = 6

\* ----------------------------------------------------------- analyze_text
BASIC_STOPWORDS ==
    {<<"t", "h", "e">>, <<"a">>, <<"a", "n">>, <<"a", "n", "d">>, <<"o", "r">>,
     <<"b", "u", "t">>, <<"i", "f">>, <<"t", "h", "e", "n">>, <<"e", "l", "s", "e">>,
     <<"w", "h", "e", "n">>, <<"a", "t">>, <<"b", "y">>, <<"f", "o", "r">>, <<"i", "n">>,
     <<"o", "f">>, <<"o", "n">>, <<"t", "o">>, <<"w", "i", "t", "h">>, <<"i", "s">>,
     <<"i", "t">>, <<"a", "s">>, <<"t", "h", "a", "t">>, <<"t", "h", "i", "s">>,
     <<"t", "h", "e", "s", "e">>, <<"t", "h", "o", "s", "e">>, <<"a", "r", "e">>,
     <<"b", "e">>, <<"w", "a", "s">>, <<"w", "e", "r", "e">>, <<"f", "r", "o", "m">>,
     <<"s", "o">>, <<"w", "e">>, <<"y", "o", "u">>, <<"h", "e">>, <<"s", "h", "e">>,
     <<"t", "h", "e", "y">>, <<"t", "h", "e", "m">>, <<"h", "i", "s">>, <<"h", "e", "r">>,
     <<"o", "u", "r">>, <<"y", "o", "u", "r">>, <<"t", "h", "e", "i", "r">>, <<"i">>,
     <<"m", "e">>, <<"m", "y">>, <<"m", "i", "n", "e">>, <<"u", "s">>,
     <<"w", "i", "l", "l">>, <<"n", "o", "t">>, <<"n", "o">>, <<"y", "e", "s">>}

Letters ==
    {"a", "b", "c", "d", "e", "f", "g", "h", "i", "j", "k", "l", "m", "n", "o", "p", "q",
     "r", "s", "t", "u", "v", "w", "x", "y", "z", "T", "A", "N", "I", "F", "C"}

\* \w: a letter, a digit or the underscore
WordChar(c) == c \in Letters \cup Digits \cup {"_"}

\* the characters of s without leading and trailing apostrophes
TrimApostrophes(s) ==
    LET keep == {i \in DOMAIN s : s[i] # "'"}
    IN  IF keep = {} THEN <<>>
        ELSE SubSeq(s, CHOOSE i \in keep : \A j \in keep : i <= j,
                       CHOOSE i \in keep : \A j \in keep : i >= j)

\* WORD_RE.findall(content) for \b[\w']+\b, from character i on with the run of word
\* characters and apostrophes read so far: a match is such a run from its first to
\* its last word character
RECURSIVE FindWords(_, _, _)
FindWords(content, i, run) ==
    LET word == TrimApostrophes(run)
    IN  IF i > Len(content)
        THEN IF word = <<>> THEN <<>> ELSE <<word>>
        ELSE IF WordChar(content[i]) \/ content[i] = "'"
        THEN FindWords(content, i + 1, Append(run, content[i]))
        ELSE (IF word = <<>> THEN <<>> ELSE <<word>>) \o FindWords(content, i + 1, <<>>)

\* words after the lower() and the stopword filter
RetainedWords(content, stopwords) ==
    LET words == [i \in DOMAIN FindWords(content, 1, <<>>) |-> Lower(FindWords(content, 1, <<>>)[i])]
    IN  IF stopwords THEN SelectSeq(words, LAMBDA w : w \notin BASIC_STOPWORDS) ELSE words

\* content.splitlines(), lines ending at "\n": no empty line after a final newline
RECURSIVE SplitLines(_, _, _)
SplitLines(content, i, line) ==
    IF i > Len(content) THEN (IF line = <<>> THEN <<>> ELSE <<line>>)
    ELSE IF content[i] = "\n" THEN <<line>> \o SplitLines(content, i + 1, <<>>)
    ELSE SplitLines(content, i + 1, Append(line, content[i]))

\* analyze_text(content, top_n, use_stopwords)
analyze_text(content, n, stopwords) ==
    LET lines == SplitLines(content, 1, <<>>)
        words == RetainedWords(content, stopwords)
        freqs == MostCommon(words, n)
    IN  [type |-> "text",
         lines |-> Len(lines),
         characters |-> Len(content),
         words |-> Len(words),
         unique_words |-> Cardinality(SeqRange(words)),
         avg_word_length |->
             IF Len(words) > 0
             THEN RoundHalfEven(SumSeq([i \in DOMAIN words |-> Len(words[i])]) * Scale,
                                Len(words), AvgDigits)
             ELSE 0,
         longest_line_length |->
             IF lines = <<>> THEN 0 ELSE MaxSeq([i \in DOMAIN lines |-> Len(lines[i])]),
         top_words |-> [i \in DOMAIN freqs |-> [word |-> freqs[i].value, count |-> freqs[i].count]]]

\* the fragments a text is made of, and the text of the spec's scenario
Fragments ==
    {<<"t", "h", "e">>, <<"C", "a", "t">>, <<"i", "t", "'", "s">>, <<" ">>, <<"'">>, <<".", "\n">>}
Scenario ==
    <<"t", "h", "e", " ", "c", "a", "t", " ", "s", "a", "t", ".", " ",
      "t", "h", "e", " ", "c", "a", "t", " ", "r", "a", "n", ".">>

RECURSIVE Concat(_)
Concat(chunks) == IF chunks = <<>> THEN <<>> ELSE Head(chunks) \o Concat(Tail(chunks))

InitText ==
    /\ \/ \E n \in 0..TextChunks : \E chunks \in [1..n -> Fragments] :
              file = TextFile(Concat(chunks))
       \/ file = TextFile(Scenario)
    /\ top_n \in 0..MaxTop
    /\ use_stopwords \in BOOLEAN
    /\ analysis = NoAnalysis
    /\ BatchIdle
    /\ GradebookIdle

\* analyze_file(path, ...) on a .txt, .log or .md file: analyze_text(read_text(path), ...)
AnalyzeText ==
    /\ pc = "idle" /\ analysis = NoAnalysis /\ file.ext \in {".txt", ".log", ".md"}
    /\ analysis' = analyze_text(file.content, top_n, use_stopwords)
    /\ UNCHANGED <<file, top_n, use_stopwords>>
    /\ UNCHANGED batchVars
    /\ UNCHANGED gradeVars

NextText == AnalyzeText

SpecText == InitText /\ [][NextText]_vars

\* the place where word w first appears among the retained words
FirstPlace(words, w) == CHOOSE i \in DOMAIN words : words[i] = w /\ \A j \in 1..(i - 1) : words[j] # w

\* w ranks before v: more frequent, or as frequent and seen first
RanksBefore(words, w, v) ==
    \/ CountOf(words, w) > CountOf(words, v)
    \/ CountOf(words, w) = CountOf(words, v) /\ FirstPlace(words, w) < FirstPlace(words, v)

\* (C9) analyze_text reports the number of retained lowercased tokens, the number of
\* distinct ones, and as top_words the retained tokens ranked by descending frequency,
\* ties by first appearance, cut to top_n; "the cat sat. the cat ran." with top_n = 2
\* gives 6 words, 4 unique words and the:2, cat:2.
C9_TopWordsRankedByFrequency ==
    analysis.type = "text" =>
        LET words == RetainedWords(file.content, use_stopwords)
            top   == analysis.top_words
            known == {top[i].word : i \in DOMAIN top}
        IN  /\ analysis.words = Len(words)
            /\ \A i \in DOMAIN words : words[i] = Lower(words[i])
            /\ use_stopwords => \A i \in DOMAIN words : words[i] \notin BASIC_STOPWORDS
            /\ analysis.unique_words = Cardinality(SeqRange(words))
            /\ Len(top) = (IF top_n < analysis.unique_words THEN top_n ELSE analysis.unique_words)
            /\ \A i \in DOMAIN top :
                   /\ top[i].word \in SeqRange(words)
                   /\ top[i].count = CountOf(words, top[i].word)
                   /\ \A j \in DOMAIN top : i < j => RanksBefore(words, top[i].word, top[j].word)
                   /\ \A w \in SeqRange(words) \ known : RanksBefore(words, top[i].word, w)
            /\ (file.content = Scenario /\ top_n = 2 /\ ~use_stopwords) =>
                   /\ analysis.words = 6 /\ analysis.unique_words = 4
                   /\ top = <<[word |-> <<"t", "h", "e">>, count |-> 2],
                              [word |-> <<"c", "a", "t">>, count |-> 2]>>

\* the scenario of the spec, analyzed
C9_Witness ==
    /\ analysis.type = "text"
    /\ file.content = Scenario /\ top_n = 2 /\ ~use_stopwords

\* a text with a stopword dropped, a tie among the words kept and a word cut by top_n
C9_WitnessStopwords ==
    /\ analysis.type = "text" /\ use_stopwords
    /\ Len(FindWords(file.content, 1, <<>>)) > analysis.words
    /\ Len(analysis.top_words) < analysis.unique_words
    /\ \E i \in DOMAIN analysis.top_words :
           \E w \in SeqRange(RetainedWords(file.content, TRUE)) :
               /\ w # analysis.top_words[i].word
               /\ CountOf(RetainedWords(file.content, TRUE), w) = analysis.top_words[i].count

\* ------------------------------------------------------- paths and the disk
\* A path is the sequence of its components; a component holds Path.stem and
\* Path.suffix, the suffix as characters.
Name(stem, suffix) == [stem |-> stem, suffix |-> suffix]
Dir(stem) == Name(stem, <<>>)
DotDot == Dir("..")

SUPPORTED_EXTS ==
    {<<".", "t", "x", "t">>, <<".", "l", "o", "g">>, <<".", "m", "d">>,
     <<".", "c", "s", "v">>, <<".", "j", "s", "o", "n">>}

\* Path.resolve() below the working directory of a disk without links
RECURSIVE ResolveFrom(_, _)
ResolveFrom(p, done) ==
    IF p = <<>> THEN done
    ELSE IF Head(p) = DotDot /\ done # <<>>
    THEN ResolveFrom(Tail(p), SubSeq(done, 1, Len(done) - 1))
    ELSE ResolveFrom(Tail(p), Append(done, Head(p)))

Resolve(p) == ResolveFrom(p, <<>>)

\* what a read of the file raises on: no permission, bytes that are no csv text,
\* text that is no JSON
Broken == [ext |-> "broken"]
Folder == [kind |-> "dir"]
Document(body) == [kind |-> "file", body |-> body]

\* d/a.txt, d/a.json, d/c.xyz, the folders d/e.log and d/s, and d/s/a.md
Disk(json_body) ==
    LET d == Dir("d")
    IN  (<<d>> :> Folder)
        @@ (<<d, Name("a", <<".", "t", "x", "t">>)>> :> Document(TextFile(Scenario)))
        @@ (<<d, Name("a", <<".", "j", "s", "o", "n">>)>> :> Document(json_body))
        @@ (<<d, Name("c", <<".", "x", "y", "z">>)>> :> Document(TextFile(<<"x">>)))
        @@ (<<d, Name("e", <<".", "l", "o", "g">>)>> :> Folder)
        @@ (<<d, Dir("s")>> :> Folder)
        @@ (<<d, Dir("s"), Name("a", <<".", "m", "d">>)>> :> Document(TextFile(<<"C", "a", "t">>)))

\* the paths a command line names: the folders, a file spelled in two ways, a file of
\* no supported kind and a path that does not exist
RawPaths ==
    LET d == Dir("d")
    IN  {<<d>>, <<d, Dir("s")>>,
         <<d, Name("a", <<".", "t", "x", "t">>)>>,
         <<d, Dir("s"), DotDot, Name("a", <<".", "t", "x", "t">>)>>,
         <<d, Name("c", <<".", "x", "y", "z">>)>>,
         <<Dir("m")>>}

is_file(disk, p) == Resolve(p) \in DOMAIN disk /\ disk[Resolve(p)].kind = "file"
is_dir(disk, p) == Resolve(p) \in DOMAIN disk /\ disk[Resolve(p)].kind = "dir"

\* every order of the members of a set
Orderings(S) == {o \in [1..Cardinality(S) -> S] : \A x \in S : \E i \in DOMAIN o : o[i] = x}

\* p.glob("*" + ext), p.rglob("*" + ext): the entries in p, or below p, whose name
\* ends with ext, folders included, as paths that start with p
Glob(disk, p, deep, ext) ==
    LET base == Resolve(p)
    IN  {p \o SubSeq(q, Len(base) + 1, Len(q)) :
            q \in {r \in DOMAIN disk :
                      /\ IF deep THEN Len(r) > Len(base) ELSE Len(r) = Len(base) + 1
                      /\ SubSeq(r, 1, Len(base)) = base
                      /\ r[Len(r)].suffix = ext}}

\* what the loop over SUPPORTED_EXTS can add for a folder: the set iterates in the order
\* of the hashes and a folder lists its entries in the order of the file system, so the
\* kinds come in any order and, within a kind, the entries in any order
RECURSIVE Listings(_, _, _, _)
Listings(disk, p, deep, exts) ==
    IF exts = <<>> THEN {<<>>}
    ELSE {a \o b : a \in Orderings(Glob(disk, p, deep, Head(exts))),
                   b \in Listings(disk, p, deep, Tail(exts))}

FolderListings(disk, p, deep) ==
    UNION {Listings(disk, p, deep, exts) :
              exts \in Orderings({e \in SUPPORTED_EXTS : Glob(disk, p, deep, e) # {}})}

\* the list "files" after the first loop, for every order the folders can be listed in
RECURSIVE Collected(_, _, _)
Collected(disk, raws, deep) ==
    IF raws = <<>> THEN {<<>>}
    ELSE LET p == Head(raws)
             found == IF is_file(disk, p)
                      THEN (IF Lower(p[Len(p)].suffix) \in SUPPORTED_EXTS THEN {<<p>>} ELSE {<<>>})
                      ELSE IF is_dir(disk, p) THEN FolderListings(disk, p, deep)
                      ELSE {<<>>}
         IN  {a \o b : a \in found, b \in Collected(disk, Tail(raws), deep)}

\* the second loop: the first path of every resolved location, in order
RECURSIVE Unique(_, _)
Unique(found, seen) ==
    IF found = <<>> THEN <<>>
    ELSE IF Resolve(Head(found)) \in seen THEN Unique(Tail(found), seen)
    ELSE <<Head(found)>> \o Unique(Tail(found), seen \cup {Resolve(Head(found))})

\* the lists discover_files(inputs, recursive) can return
discover_files(disk, raws, deep) == {Unique(c, {}) : c \in Collected(disk, raws, deep)}

\* ------------------------------------------------------------ the batch run
Raised(reason) == [raised |-> TRUE, reason |-> reason]
Returned(result) == [raised |-> FALSE, analysis |-> result]

\* analyze_file(path, top_n, stopwords) on a disk: what it returns or that it raises;
\* headers is the order list(headers) takes for a json table
analyze_file(disk, path, n, stopwords, headers) ==
    LET ext   == Lower(path[Len(path)].suffix)
        entry == disk[Resolve(path)]
    IN  IF ext \notin SUPPORTED_EXTS THEN Raised("Unsupported file type")
        ELSE IF entry.kind = "dir" THEN Raised("Is a directory")
        ELSE IF entry.body = Broken THEN Raised("unreadable")
        ELSE IF ext = <<".", "c", "s", "v">> THEN Returned(analyze_csv(entry.body))
        ELSE IF ext = <<".", "j", "s", "o", "n">> THEN Returned(analyze_json(entry.body.data, headers))
        ELSE Returned(analyze_text(entry.body.content, n, stopwords))

\* the order list(headers) can take for the file at path
HeaderOrders(disk, path) ==
    LET entry == disk[Resolve(path)]
    IN  IF entry.kind = "file" /\ entry.body.ext = ".json" /\ IsJsonTable(entry.body.data)
        THEN HeaderLists(HeaderSet(entry.body.data))
        ELSE {<<>>}

\* outdir / f"report_{file.stem}.md", outdir / f"report_{file.stem}.json"
ReportName(path, fmt) == [stem |-> path[Len(path)].stem, format |-> fmt]

\* a report in the output directory: its name, the location and the analysis it shows
Report(path, fmt, result) ==
    [name |-> ReportName(path, fmt), location |-> Resolve(path), analysis |-> result]

\* out_path.write_text(...), out_path.open("w"): the file of that name is replaced
Written(dir, report) == {r \in dir : r.name # report.name} \cup {report}

JsonRecords == ListVal(<<DictVal(<<[k |-> <<"a">>, v |-> IntVal(1)]>>)>>)

InitBatch ==
    /\ file = Broken /\ analysis = NoAnalysis
    /\ top_n = MaxTop /\ use_stopwords \in BOOLEAN
    /\ fs \in {Disk(JsonFile(JsonRecords)), Disk(Broken)}
    /\ \E n \in 1..MaxInputs : inputs \in [1..n -> RawPaths]
    /\ recursive \in BOOLEAN
    /\ format \in {"md", "json"}
    /\ files = <<>> /\ pos = 0 /\ pc = "start" /\ outdir = {} /\ log = <<>>
    /\ GradebookIdle

\* main() up to the for loop: the output directory made, the files discovered; with no
\* file "No supported files found." is printed and main returns
Discover ==
    /\ pc = "start"
    /\ \E found \in discover_files(fs, inputs, recursive) :
           /\ files' = found
           /\ pc' = IF found = <<>> THEN "done" ELSE "loop"
    /\ pos' = 1
    /\ UNCHANGED <<fs, inputs, recursive, format, outdir, log>>
    /\ UNCHANGED analyzeVars
    /\ UNCHANGED gradeVars

\* a variant without the except block: a file whose analysis raises ends the run
ProcessFileUncaught ==
    /\ pc = "loop" /\ pos <= Len(files)
    /\ LET path  == files[pos]
           entry == fs[Resolve(path)]
       IN  /\ file' = (IF entry.kind = "file" THEN entry.body ELSE Broken)
           /\ \E headers \in HeaderOrders(fs, path) :
                  LET outcome == analyze_file(fs, path, top_n, use_stopwords, headers)
                  IN  IF outcome.raised
                      THEN /\ pc' = "done"
                           /\ UNCHANGED <<analysis, outdir, log>>
                      ELSE /\ analysis' = outcome.analysis
                           /\ outdir' = Written(outdir, Report(path, format, outcome.analysis))
                           /\ log' = Append(log, [status |-> "OK", file |-> path,
                                                  detail |-> "report"])
                           /\ pc' = IF pos = Len(files) THEN "done" ELSE "loop"
    /\ pos' = pos + 1
    /\ UNCHANGED <<top_n, use_stopwords, fs, inputs, recursive, format, files>>
    /\ UNCHANGED gradeVars

\* one pass of "for file in files": the try block with its report and [OK] line, or the
\* except block with its [ERR] line; the loop goes on to the next file either way
ProcessFile ==
    /\ pc = "loop" /\ pos <= Len(files)
    /\ LET path  == files[pos]
           entry == fs[Resolve(path)]
       IN  /\ file' = (IF entry.kind = "file" THEN entry.body ELSE Broken)
           /\ \E headers \in HeaderOrders(fs, path) :
                  LET outcome == analyze_file(fs, path, top_n, use_stopwords, headers)
                  IN  IF outcome.raised
                      THEN /\ log' = Append(log, [status |-> "ERR", file |-> path,
                                                  detail |-> outcome.reason])
                           /\ UNCHANGED <<analysis, outdir>>
                      ELSE /\ analysis' = outcome.analysis
                           /\ outdir' = Written(outdir, Report(path, format, outcome.analysis))
                           /\ log' = Append(log, [status |-> "OK", file |-> path,
                                                  detail |-> "report"])
    /\ pos' = pos + 1
    /\ pc' = IF pos = Len(files) THEN "done" ELSE "loop"
    /\ UNCHANGED <<top_n, use_stopwords, fs, inputs, recursive, format, files>>
    /\ UNCHANGED gradeVars

NextBatch == Discover \/ ProcessFile

SpecBatch == InitBatch /\ [][NextBatch]_vars

\* no two paths of s resolve to the same location
DistinctLocations(s) ==
    \A i, j \in DOMAIN s : Resolve(s[i]) = Resolve(s[j]) => i = j

\* analyze_file raises on the file at path
Fails(path) == \A headers \in HeaderOrders(fs, path) :
                   analyze_file(fs, path, top_n, use_stopwords, headers).raised

\* (C6) In a batch run a failure on one file is reported for that file and never stops
\* the run: the lines printed are one per file so far, for the files in discovery order,
\* [ERR] exactly for the files whose analysis raises; no file is discovered twice; the
\* loop is left only past the last file, and the run is done only with a line for every file.
C6_FailureNeverStopsRun ==
    /\ pc \in {"loop", "done"} =>
           /\ DistinctLocations(files)
           /\ Len(log) = pos - 1
           /\ Len(log) <= Len(files)
           /\ \A i \in DOMAIN log :
                  /\ log[i].file = files[i]
                  /\ (log[i].status = "ERR") = Fails(files[i])
                  /\ log[i].status \in {"OK", "ERR"}
    /\ pc = "loop" => pos <= Len(files)
    /\ pc = "done" => Len(log) = Len(files)

\* a run that is done with a failure on a file followed by a report for a later file
C6_Witness ==
    /\ pc = "done"
    /\ \E i, j \in DOMAIN log : i < j /\ log[i].status = "ERR" /\ log[j].status = "OK"

\* a run that is done with two failures in a row before a report
C6_WitnessTwoFailures ==
    /\ pc = "done"
    /\ \E i \in DOMAIN log :
           /\ i + 2 \in DOMAIN log
           /\ log[i].status = "ERR" /\ log[i + 1].status = "ERR" /\ log[i + 2].status = "OK"

\* (C10) In a batch run in which every discovered file is analyzed successfully, every
\* file ends the run with its own report in the output directory.
C10_EveryFileKeepsItsReport ==
    (pc = "done" /\ \A i \in DOMAIN log : log[i].status = "OK") =>
        \A i \in DOMAIN files :
            \E r \in outdir : r.name = ReportName(files[i], format)
                              /\ r.location = Resolve(files[i])

\* ---------------------------------------------------------------- gradebook
\* A dict is the sequence of its [k, v] entries in insertion order.
KeyIn(d, k) == \E i \in DOMAIN d : d[i].k = k
ValueAt(d, k) == d[CHOOSE i \in DOMAIN d : d[i].k = k].v

\* d[k] = v: the value of an existing key is replaced in place, a new key goes last
Assign(d, k, v) ==
    IF KeyIn(d, k) THEN [i \in DOMAIN d |-> IF d[i].k = k THEN [k |-> k, v |-> v] ELSE d[i]]
    ELSE Append(d, [k |-> k, v |-> v])

\* Student(roll_no, name)
Student(roll_no, name) == [roll_no |-> roll_no, name |-> name, marks |-> <<>>]

\* Student.add_mark(subject, mark)
Student_add_mark(s, subject, mark) == [s EXCEPT !.marks = Assign(@, subject, mark)]

\* sum(self.marks.values())
MarkSum(s) == SumSeq([i \in DOMAIN s.marks |-> s.marks[i].v])

\* f"{s.get_average():.2f}", in units of 10^-FracDigits; the average of no marks is 0
AverageShown(s) ==
    IF s.marks = <<>> THEN 0 ELSE RoundHalfEven(MarkSum(s) * Scale, Len(s.marks), AvgDigits)

\* Student.get_grade(), the average compared as sum against bound * len
get_grade(s) ==
    LET n   == Len(s.marks)
        sum == IF n = 0 THEN 0 ELSE MarkSum(s)
        den == IF n = 0 THEN 1 ELSE n
    IN  IF sum >= 90 * den THEN "A"
        ELSE IF sum >= 80 * den THEN "B"
        ELSE IF sum >= 70 * den THEN "C"
        ELSE IF sum >= 60 * den THEN "D"
        ELSE "F"

\* what a gradebook method leaves: the students and the lines it printed
Left(ss, lines) == [students |-> ss, printed |-> lines]

NotFound == [line |-> "Student not found!"]
Rule == [line |-> "----------------------------------------"]

\* a variant without the test for an existing roll number
add_studentReplacing(ss, roll_no, name) ==
    Left(Assign(ss, roll_no, Student(roll_no, name)), <<>>)

\* Gradebook.add_student(roll_no, name)
add_student(ss, roll_no, name) ==
    IF KeyIn(ss, roll_no)
    THEN Left(ss, <<[line |-> "already exists", roll_no |-> PyStr(roll_no)]>>)
    ELSE Left(Assign(ss, roll_no, Student(roll_no, name)), <<>>)

\* Gradebook.add_mark(roll_no, subject, mark)
add_mark(ss, roll_no, subject, mark) ==
    IF ~KeyIn(ss, roll_no) THEN Left(ss, <<NotFound>>)
    ELSE Left(Assign(ss, roll_no, Student_add_mark(ValueAt(ss, roll_no), subject, mark)), <<>>)

\* Gradebook.print_report(roll_no)
print_report(ss, roll_no) ==
    IF ~KeyIn(ss, roll_no) THEN Left(ss, <<NotFound>>)
    ELSE LET st == ValueAt(ss, roll_no)
         IN  Left(ss,
                  <<[line |-> "Report Card", name |-> st.name, roll_no |-> PyStr(st.roll_no)], Rule>>
                  \o [i \in DOMAIN st.marks |-> [line |-> "mark", sub |-> st.marks[i].k,
                                                 mark |-> st.marks[i].v]]
                  \o <<Rule, [line |-> "Average", value |-> AverageShown(st)],
                       [line |-> "Grade", grade |-> get_grade(st)], Rule>>)

\* json.dumps({r: s.to_dict() ...}): the members of the object in order, every key as
\* text, so a number and the text of that number give two members of one name
Dumped(ss) ==
    [i \in DOMAIN ss |-> [k |-> PyStr(ss[i].k),
                          v |-> [name |-> ss[i].v.name, marks |-> ss[i].v.marks]]]

\* json.loads(text) and Student.from_dict for every member: of members of one name the
\* last one is kept, in the place of the first
RECURSIVE LoadedFrom(_, _)
LoadedFrom(members, ss) ==
    IF members = <<>> THEN ss
    ELSE LET r == StrVal(Head(members).k)
             d == Head(members).v
         IN  LoadedFrom(Tail(members),
                        Assign(ss, r, [roll_no |-> r, name |-> d.name, marks |-> d.marks]))

\* Gradebook.load()
load(disk_file) == IF disk_file.exists THEN LoadedFrom(disk_file.members, <<>>) ELSE <<>>

\* the arguments of the calls: a roll number as text and as a number, and another one
RollNumbers == {StrVal(<<"1">>), IntVal(1), StrVal(<<"2">>)}
StudentNames == {"Alice", "Bob"}
Subjects == {"Math", "English"}
Marks == {55, 92}

\* a gradebook just constructed in a folder without gradebook.json
InitGrade ==
    /\ file = Broken /\ analysis = NoAnalysis /\ top_n = 10 /\ use_stopwords = FALSE
    /\ BatchIdle
    /\ students = <<>> /\ saved = NoFile
    /\ call = [op |-> "__init__"] /\ printed = <<>> /\ calls = 0

\* gb.add_student(roll_no, name)
AddStudent ==
    /\ calls < MaxCalls
    /\ \E roll_no \in RollNumbers, name \in StudentNames :
           /\ students' = add_student(students, roll_no, name).students
           /\ printed' = add_student(students, roll_no, name).printed
           /\ call' = [op |-> "add_student", roll_no |-> roll_no, name |-> name]
    /\ calls' = calls + 1
    /\ UNCHANGED saved
    /\ UNCHANGED analyzeVars
    /\ UNCHANGED batchVars

\* gb.add_mark(roll_no, subject, mark)
AddMark ==
    /\ calls < MaxCalls
    /\ \E roll_no \in RollNumbers, subject \in Subjects, mark \in Marks :
           /\ students' = add_mark(students, roll_no, subject, mark).students
           /\ printed' = add_mark(students, roll_no, subject, mark).printed
           /\ call' = [op |-> "add_mark", roll_no |-> roll_no, subject |-> subject, mark |-> mark]
    /\ calls' = calls + 1
    /\ UNCHANGED saved
    /\ UNCHANGED analyzeVars
    /\ UNCHANGED batchVars

\* gb.print_report(roll_no)
PrintReport ==
    /\ calls < MaxCalls
    /\ \E roll_no \in RollNumbers :
           /\ students' = print_report(students, roll_no).students
           /\ printed' = print_report(students, roll_no).printed
           /\ call' = [op |-> "print_report", roll_no |-> roll_no]
    /\ calls' = calls + 1
    /\ UNCHANGED saved
    /\ UNCHANGED analyzeVars
    /\ UNCHANGED batchVars

\* gb.save(): the file is written anew
Save ==
    /\ calls < MaxCalls
    /\ saved' = [exists |-> TRUE, members |-> Dumped(students)]
    /\ call' = [op |-> "save"]
    /\ printed' = <<>>
    /\ calls' = calls + 1
    /\ UNCHANGED students
    /\ UNCHANGED analyzeVars
    /\ UNCHANGED batchVars

\* Gradebook(): the program run again, the students read from the file if there is one
Open ==
    /\ calls < MaxCalls
    /\ students' = load(saved)
    /\ call' = [op |-> "__init__"]
    /\ printed' = <<>>
    /\ calls' = calls + 1
    /\ UNCHANGED saved
    /\ UNCHANGED analyzeVars
    /\ UNCHANGED batchVars

NextGrade == AddStudent \/ AddMark \/ PrintReport \/ Save \/ Open

SpecGrade == InitGrade /\ [][NextGrade]_vars

\* the call c is one the gradebook ss rejects: add_student with a roll number it
\* holds, add_mark or print_report with one it does not hold
Rejects(ss, c) ==
    \/ c.op = "add_student" /\ KeyIn(ss, c.roll_no)
    \/ c.op \in {"add_mark", "print_report"} /\ ~KeyIn(ss, c.roll_no)

\* (C11) A rejected operation leaves the students mapping unchanged: add_student with
\* a roll number that already exists replaces no name and no marks, and add_mark or
\* print_report with an unknown roll number adds no student and changes no marks.
C11_RejectedCallKeepsStudents ==
    [][Rejects(students, call') => students' = students]_vars

\* add_student rejected for a student who has a mark and another name than the one given
C11_Witness ==
    /\ call.op = "add_student"
    /\ printed = <<[line |-> "already exists", roll_no |-> PyStr(call.roll_no)]>>
    /\ KeyIn(students, call.roll_no)
    /\ ValueAt(students, call.roll_no).name # call.name
    /\ ValueAt(students, call.roll_no).marks # <<>>

\* add_mark rejected by a gradebook read back from its file, which holds the roll
\* number as text and not as the number given
C11_WitnessUnknown ==
    /\ call.op = "add_mark" /\ printed = <<NotFound>>
    /\ call.roll_no = IntVal(1) /\ KeyIn(students, StrVal(<<"1">>))
    /\ saved.exists

====
